---- MODULE Spec2Model ----
(***************************************************************************)
(* A model of examples/latent_ode.py: the PRNG-key discipline, the         *)
(* dataloader generator, the vectorised loss, and the training loop of     *)
(* main with its plot-axis bookkeeping.                                    *)
(*                                                                         *)
(* The neural layers, the random draws and the ODE solution are functions  *)
(* whose numeric values are not computed here: each is represented by the  *)
(* term that names the function together with every argument it reads, so  *)
(* two results are equal exactly when the code computes them from the same *)
(* inputs.  Shapes (sequence lengths, data_size) are kept as the code has  *)
(* them.                                                                   *)
(***************************************************************************)
EXTENDS Integers, Sequences, FiniteSets

\* ---------------------------------------------------------------- bounds
MaxSteps == 4
MaxDataset == 3
MaxBatch == 3
MaxSaveEvery == 2
\* largest free-standing minibatch handed to loss
LossBatch == 2
\* observation times per trajectory of get_data (20 in the source)
NumObs == 2
\* points of the visualisation grid jnp.linspace(0, 12, 300)
SampleLen == 2

\* ------------------------------------------------------ program constants
\* y0 = jrandom.normal(ykey, (dataset_size, 2)): observations are 2-vectors
DataSize == 2

VARIABLES
    steps, dataset_size, batch_size, save_every,   \* arguments of main
    pc,            \* main's position
    step,          \* the loop variable
    rangeNext,     \* next value of range(steps) inside zip
    loader,        \* the dataloader generator's frame
    batch,         \* (ts_i, ys_i) and the indices it was cut from
    train_key, sample_key,
    model,         \* number of apply_updates the parameters went through
    opt_state,     \* number of optim.update the optimiser state went through
    grads, updates,\* step whose gradient / update is pending, or -1
    value,         \* result of the last call of loss
    sample_y,      \* result of the last call of model.sample
    num_plots, axsUsed, visSteps,
    keylog,        \* every key handed to a random operation, in order
    epochYields,   \* batch_perm of every batch of the current epoch
    permKeys,      \* key of every jrandom.permutation call, one per epoch
    nDrawn, nLoss, \* batches drawn, loss calls made
    failedAt,      \* "none", or the call in which diffeqsolve failed
    lpc,           \* position of the evaluation of loss on free-standing batches
    mb, mb2,       \* a minibatch, and one that differs from it in one element
    sigma,         \* a permutation of the positions of mb
    lkey,          \* the key handed to loss
    bad,           \* the (trajectory, key) pairs on which diffeqsolve fails
    resA, resB, resK, res2
                   \* loss of mb, of mb permuted, of mb permuted with its keys,
                   \* and of mb2

mainVars == <<steps, dataset_size, batch_size, save_every, pc, step, rangeNext,
              loader, batch, train_key, sample_key, model, opt_state, grads,
              updates, value, sample_y, num_plots, axsUsed, visSteps, keylog,
              epochYields, permKeys, nDrawn, nLoss, failedAt>>
lossVars == <<lpc, mb, mb2, sigma, lkey, bad, resA, resB, resK, res2>>
vars == <<mainVars, lossVars>>

Min(a, b) == IF a <= b THEN a ELSE b

Range(s) == {s[i] : i \in 1..Len(s)}

Reverse(s) == [i \in 1..Len(s) |-> s[Len(s) + 1 - i]]

\* ------------------------------------------------------------- PRNG keys
\* A key is its path in the split tree.  jrandom.split(key, n) hashes the
\* counters 0..2n-1 under key and pairs them up, so the i-th child depends on
\* n as well as on i.
PRNGKey == << >>

SplitKey(key, n) == [i \in 1..n |-> Append(key, <<n, i>>)]

\* ------------------------------------------------------- Python slicing
\* seq[start:end] of a 0-based sequence, for 0 <= start: the end is clipped.
Slice(seq, start, end) == SubSeq(seq, start + 1, Min(end, Len(seq)))

\* array[batch_perm]: gather rows by 0-based index
Gather(array, batch_perm) ==
    [j \in 1..Len(batch_perm) |-> array[batch_perm[j] + 1]]

\* ---------------------------------------------------------------- get_data
\* ts: dataset_size sorted time grids of NumObs times; ys: the observation at
\* each time, a DataSize-vector.  The numbers stand for the random draws.
GetData(n) ==
    [ts |-> [i \in 1..n |-> [j \in 1..NumObs |-> (i - 1) + 2 * j]],
     ys |-> [i \in 1..n |-> [j \in 1..NumObs |->
                [d \in 1..DataSize |-> 100 * i + 10 * j + d]]]]

\* ------------------------------------------------------------ LatentODE
\* eqx.nn.GRUCell applied to one input: the new hidden state is a function of
\* the input and of the old hidden state.
rnn_cell(data_i, hidden) == Append(hidden, data_i)

RECURSIVE RnnFold(_, _)
RnnFold(data, hidden) ==
    IF data = << >> THEN hidden
    ELSE RnnFold(Tail(data), rnn_cell(Head(data), hidden))

\* _latent: the encoder.  data = concatenate([ts[:, None], ys], axis=1) is
\* consumed in reverse; the latent is mean + normal(key) * std.
_latent(m, ts, ys, key) ==
    LET data   == [j \in 1..Len(ts) |-> <<ts[j]>> \o ys[j]]
        hidden == [model |-> m, seen |-> RnnFold(Reverse(data), << >>)]
        mean   == [of |-> hidden, half |-> "mean"]
        std    == [of |-> hidden, half |-> "std"]
    IN  [latent |-> [mean |-> mean, std |-> std, noise |-> key],
         mean |-> mean, std |-> std]

\* diffrax.diffeqsolve(solver, ts[0], ts[-1], y0, dt0, saveat=SaveAt(ts=ts)):
\* one state per requested time, or a solve failure (ok = FALSE) that is
\* raised to the caller.
DiffEqSolve(m, ts, y0, ok) ==
    IF ok
    THEN [status |-> "ok",
          ys |-> [j \in 1..Len(ts) |->
                     [model |-> m, y0 |-> y0, t0 |-> ts[1], t |-> ts[j]]]]
    ELSE [status |-> "solve_failure", ys |-> << >>]

\* eqx.nn.Linear(hidden_size, data_size): one output per data coordinate
hidden_to_data(m, h) == [d \in 1..DataSize |-> [model |-> m, h |-> h, out |-> d]]

\* a decoder that catches the solver's failure and projects filler states
_sampleSwallowsFailure(m, ts, latent, ok) ==
    LET y0  == [model |-> m, latent |-> latent]
        sol == DiffEqSolve(m, ts, y0, ok)
        nan == [model |-> m, y0 |-> y0, t0 |-> ts[1], t |-> -1]
    IN  [status |-> "ok",
         ys |-> [j \in 1..Len(ts) |->
                    hidden_to_data(m, IF sol.status = "ok"
                                      THEN sol.ys[j] ELSE nan)]]

\* a decoder that projects the final state only
_sampleFinalOnly(m, ts, latent, ok) ==
    LET y0  == [model |-> m, latent |-> latent]
        sol == DiffEqSolve(m, ts, y0, ok)
    IN  IF sol.status = "ok"
        THEN [status |-> "ok",
              ys |-> <<hidden_to_data(m, sol.ys[Len(sol.ys)])>>]
        ELSE [status |-> sol.status, ys |-> << >>]

\* _sample: the decoder.  An exception of diffeqsolve leaves the function
\* before the projection.
_sample(m, ts, latent, ok) ==
    LET y0  == [model |-> m, latent |-> latent]
        sol == DiffEqSolve(m, ts, y0, ok)
    IN  IF sol.status = "ok"
        THEN [status |-> "ok",
              ys |-> [j \in 1..Len(sol.ys) |-> hidden_to_data(m, sol.ys[j])]]
        ELSE [status |-> sol.status, ys |-> << >>]

\* _loss: reconstruction term over (ys, pred_ys) plus KL term over (mean, std)
_loss(ys, pred_ys, mean, std) ==
    [recon |-> [ys |-> ys, pred_ys |-> pred_ys],
     kl |-> [mean |-> mean, std |-> std]]

\* train: encoder, decoder, loss.  pred_ys is kept beside the scalar so that
\* the shape of the decoded sequence can be inspected.
train(m, ts, ys, key, ok) ==
    LET enc  == _latent(m, ts, ys, key)
        pred == _sample(m, ts, enc.latent, ok)
    IN  IF pred.status = "ok"
        THEN [status |-> "ok", pred_ys |-> pred.ys,
              loss |-> _loss(ys, pred.ys, enc.mean, enc.std)]
        ELSE [status |-> pred.status, pred_ys |-> << >>, loss |-> << >>]

\* sample: the decoder alone, on a latent drawn from the prior
sample(m, ts, key, ok) == _sample(m, ts, [noise |-> key], ok)

\* ---------------------------------------------------------------- main.loss
\* a batched call that solves every element on the first element's time grid
vmap_trainSharedGrid(m, ts_i, ys_i, key_i, oks) ==
    [i \in 1..Len(ts_i) |-> train(m, ts_i[1], ys_i[i], key_i[i], oks[i])]

\* jax.vmap(model.train)(ts_i, ys_i, key=key_i): element i of every argument
vmap_train(m, ts_i, ys_i, key_i, oks) ==
    [i \in 1..Len(ts_i) |-> train(m, ts_i[i], ys_i[i], key_i[i], oks[i])]

\* jnp.mean of a vector: the sum, which does not depend on the order of its
\* terms, over the number of terms
SeqToBag(s) ==
    [x \in Range(s) |-> Cardinality({i \in 1..Len(s) : s[i] = x})]

\* a reduction that depends on the order of its terms
mean_ofInOrder(losses) == [sum |-> losses, n |-> Len(losses)]

mean_of(losses) == [sum |-> SeqToBag(losses), n |-> Len(losses)]

\* ts_i is an array only if every row has the same length
Rectangular(ts_i) ==
    \A i, j \in 1..Len(ts_i) : Len(ts_i[i]) = Len(ts_i[j])

NoValue == [status |-> "none", per |-> << >>, preds |-> << >>,
            mean |-> [sum |-> << >>, n |-> 0]]

\* the body of loss once the per-element keys are fixed: the vectorised call
\* and the mean
loss_keyed(m, ts_i, ys_i, keys, oks) ==
    LET out == vmap_train(m, ts_i, ys_i, keys, oks)
    IN  IF \E i \in 1..Len(out) : out[i].status # "ok"
        THEN [NoValue EXCEPT !.status = "solve_failure"]
        ELSE [status |-> "ok",
              per |-> [i \in 1..Len(out) |-> out[i].loss],
              preds |-> [i \in 1..Len(out) |-> out[i].pred_ys],
              mean |-> mean_of([i \in 1..Len(out) |-> out[i].loss])]

\* loss(model, ts_i, ys_i, key_i=key): batch_size, _ = ts_i.shape needs a
\* two-dimensional array; the keys are split(key_i, batch_size), by position.
loss(m, ts_i, ys_i, key_i, oks) ==
    IF ~Rectangular(ts_i)
    THEN [NoValue EXCEPT !.status = "shape_error"]
    ELSE loss_keyed(m, ts_i, ys_i, SplitKey(key_i, Len(ts_i)), oks)

\* keys a call of loss hands to random operations: key_i to split, and each
\* child to the jrandom.normal of _latent
LossKeys(key_i, n) ==
    <<key_i>> \o SplitKey(key_i, n)

\* --------------------------------------------------------------- dataloader
\* jrandom.permutation(key, jnp.arange(n)): some permutation of 0..n-1
PermutationsOf(n) ==
    {p \in [1..n -> 0..(n - 1)] : \A i, j \in 1..n : p[i] = p[j] => i = j}

\* the generator before its first next()
NewLoader(key) ==
    [started |-> FALSE, key |-> key, perm |-> << >>, start |-> 0, end |-> 0]

\* top of `while True`: draw perm with key, replace key by its only child,
\* rewind start and end
EpochStart(l, perm) ==
    [started |-> TRUE, key |-> SplitKey(l.key, 1)[1], perm |-> perm,
     start |-> 0, end |-> batch_size]

\* after a yield: start = end; end = start + batch_size
AfterYield(l) == [l EXCEPT !.start = l.end, !.end = l.end + batch_size]

\* a sampler that drops the last, partial batch: `while end <= dataset_size`
StartsEpochDropLast(l) ==
    ~l.started \/ ~(AfterYield(l).end <= dataset_size)

\* does the next next() run the top of `while True`?
StartsEpoch(l) == ~l.started \/ ~(AfterYield(l).start < dataset_size)

\* next(generator): run to the next yield
DataloaderNext(l, perm) ==
    IF StartsEpoch(l) THEN EpochStart(l, perm) ELSE AfterYield(l)

\* a sampler that keeps every batch at batch_size by wrapping around perm
BatchPermWrapped(l) ==
    [j \in 1..batch_size |-> l.perm[((l.start + j - 1) % Len(l.perm)) + 1]]

\* batch_perm = perm[start:end] at the yield
BatchPerm(l) == Slice(l.perm, l.start, l.end)

\* yield tuple(array[batch_perm] for array in arrays), arrays = (ts, ys)
Yielded(l) ==
    LET data == GetData(dataset_size)
        bp   == BatchPerm(l)
    IN  [idx |-> bp, ts_i |-> Gather(data.ts, bp), ys_i |-> Gather(data.ys, bp)]

\* --------------------------------------------------------------------- main
\* data_key, model_key, loader_key, train_key, sample_key = split(key, 5)
MainKeys == SplitKey(PRNGKey, 5)

\* keys used up before the loop: the seed key by split; data_key by the split
\* of get_data and its children by normal/uniform; model_key by the split of
\* LatentODE.__init__ and its children by the five layers
SetupKeys ==
    <<PRNGKey>> \o <<MainKeys[1]>> \o SplitKey(MainKeys[1], 3)
                \o <<MainKeys[2]>> \o SplitKey(MainKeys[2], 5)

\* num_plots = 1 + (steps - 1) // save_every, plus one when the last step is
\* not a multiple of save_every
NumPlots(n, every) ==
    (1 + (n - 1) \div every) + (IF ((n - 1) % every) # 0 THEN 1 ELSE 0)

\* plt.subplots(1, ncols) with squeeze left at its default: no columns is a
\* ValueError, one column gives a bare Axes (which axs[0] cannot index), more
\* give an array of Axes
Subplots(ncols) ==
    IF ncols < 1 THEN "ValueError"
    ELSE IF ncols = 1 THEN "Axes" ELSE "array"

\* (step % save_every) == 0 or step == steps - 1
VisDue(s) == (s % save_every) = 0 \/ s = steps - 1

\* sample_t = jnp.linspace(0, 12, 300)
SampleT == [j \in 1..SampleLen |-> j - 1]

Init ==
    /\ steps \in 0..MaxSteps
    /\ dataset_size \in 1..MaxDataset
    /\ batch_size \in 1..MaxBatch
    /\ save_every \in 1..MaxSaveEvery
    /\ pc = "plots"
    /\ step = -1
    /\ rangeNext = 0
    /\ loader = NewLoader(MainKeys[3])
    /\ batch = [idx |-> << >>, ts_i |-> << >>, ys_i |-> << >>]
    /\ train_key = MainKeys[4]
    /\ sample_key = MainKeys[5]
    /\ model = 0
    /\ opt_state = 0
    /\ grads = -1
    /\ updates = -1
    /\ value = NoValue
    /\ sample_y = [status |-> "none", ys |-> << >>]
    /\ num_plots = 0
    /\ axsUsed = 0
    /\ visSteps = {}
    /\ keylog = SetupKeys
    /\ epochYields = << >>
    /\ permKeys = << >>
    /\ nDrawn = 0
    /\ nLoss = 0
    /\ failedAt = "none"
    /\ lpc = "off"
    /\ mb = << >>
    /\ mb2 = << >>
    /\ sigma = << >>
    /\ lkey = << >>
    /\ bad = {}
    /\ resA = NoValue
    /\ resB = NoValue
    /\ resK = NoValue
    /\ res2 = NoValue

\* lines 279-284: allocate the axes, label the first, make the iterator
MakePlots ==
    /\ pc = "plots"
    /\ num_plots' = NumPlots(steps, save_every)
    /\ pc' = IF Subplots(num_plots') = "array" THEN "zip" ELSE "crashed"
    /\ UNCHANGED <<steps, dataset_size, batch_size, save_every, step,
                   rangeNext, loader, batch, train_key, sample_key, model,
                   opt_state, grads, updates, value, sample_y, axsUsed,
                   visSteps, keylog, epochYields, permKeys, nDrawn, nLoss,
                   failedAt>>
    /\ UNCHANGED lossVars

\* zip(range(steps), dataloader(...)): range is asked first, the generator
\* only when range had a value
ZipNext ==
    /\ pc = "zip"
    /\ rangeNext < steps
    /\ \E perm \in PermutationsOf(dataset_size) :
         /\ loader' = DataloaderNext(loader, perm)
         /\ keylog' = IF StartsEpoch(loader)
                      THEN keylog \o <<loader.key, loader.key>>
                      ELSE keylog
         /\ permKeys' = IF StartsEpoch(loader)
                        THEN Append(permKeys, loader.key)
                        ELSE permKeys
         /\ epochYields' = IF StartsEpoch(loader)
                           THEN <<BatchPerm(loader')>>
                           ELSE Append(epochYields, BatchPerm(loader'))
    /\ batch' = Yielded(loader')
    /\ step' = rangeNext
    /\ rangeNext' = rangeNext + 1
    /\ nDrawn' = nDrawn + 1
    /\ pc' = "loss"
    /\ UNCHANGED <<steps, dataset_size, batch_size, save_every, train_key,
                   sample_key, model, opt_state, grads, updates, value,
                   sample_y, num_plots, axsUsed, visSteps, nLoss, failedAt>>
    /\ UNCHANGED lossVars

\* zip(dataloader(...), range(steps)): the generator is asked before range
\* is found exhausted
ZipStopAfterDraw ==
    /\ pc = "zip"
    /\ rangeNext = steps
    /\ \E perm \in PermutationsOf(dataset_size) :
         loader' = DataloaderNext(loader, perm)
    /\ batch' = Yielded(loader')
    /\ nDrawn' = nDrawn + 1
    /\ pc' = "done"
    /\ UNCHANGED <<steps, dataset_size, batch_size, save_every, step,
                   rangeNext, train_key, sample_key, model, opt_state, grads,
                   updates, value, sample_y, num_plots, axsUsed, visSteps,
                   keylog, epochYields, permKeys, nLoss, failedAt>>
    /\ UNCHANGED lossVars

\* range(steps) is exhausted: the loop ends, the figure is saved
ZipStop ==
    /\ pc = "zip"
    /\ rangeNext = steps
    /\ pc' = "done"
    /\ UNCHANGED <<steps, dataset_size, batch_size, save_every, step,
                   rangeNext, loader, batch, train_key, sample_key, model,
                   opt_state, grads, updates, value, sample_y, num_plots,
                   axsUsed, visSteps, keylog, epochYields, permKeys, nDrawn,
                   nLoss, failedAt>>
    /\ UNCHANGED lossVars

\* value, grads = loss(model, ts_i, ys_i, key_i=train_key); an exception of
\* the call ends main
LossStep ==
    /\ pc = "loss"
    /\ \E oks \in [1..Len(batch.ts_i) -> BOOLEAN] :
         /\ value' = loss(model, batch.ts_i, batch.ys_i, train_key, oks)
         /\ keylog' = keylog \o LossKeys(train_key, Len(batch.ts_i))
         /\ nLoss' = nLoss + 1
         /\ failedAt' = IF \E i \in DOMAIN oks : ~oks[i]
                         THEN "loss" ELSE failedAt
         /\ IF value'.status = "ok"
            THEN /\ grads' = step
                 /\ pc' = "split"
            ELSE /\ grads' = grads
                 /\ pc' = "failed"
    /\ UNCHANGED <<steps, dataset_size, batch_size, save_every, step,
                   rangeNext, loader, batch, train_key, sample_key, model,
                   opt_state, updates, sample_y, num_plots, axsUsed, visSteps,
                   epochYields, permKeys, nDrawn>>
    /\ UNCHANGED lossVars

\* (train_key,) = jrandom.split(train_key, 1)
SplitTrainKey ==
    /\ pc = "split"
    /\ train_key' = SplitKey(train_key, 1)[1]
    /\ keylog' = Append(keylog, train_key)
    /\ pc' = "update"
    /\ UNCHANGED <<steps, dataset_size, batch_size, save_every, step,
                   rangeNext, loader, batch, sample_key, model, opt_state,
                   grads, updates, value, sample_y, num_plots, axsUsed,
                   visSteps, epochYields, permKeys, nDrawn, nLoss, failedAt>>
    /\ UNCHANGED lossVars

\* an optimiser step that also writes the parameters in place
OptimUpdateInPlace ==
    /\ pc = "update"
    /\ updates' = grads
    /\ opt_state' = opt_state + 1
    /\ model' = model + 1
    /\ pc' = "apply"
    /\ UNCHANGED <<steps, dataset_size, batch_size, save_every, step,
                   rangeNext, loader, batch, train_key, sample_key, grads,
                   value, sample_y, num_plots, axsUsed, visSteps, keylog,
                   epochYields, permKeys, nDrawn, nLoss, failedAt>>
    /\ UNCHANGED lossVars

\* updates, opt_state = optim.update(grads, opt_state)
OptimUpdate ==
    /\ pc = "update"
    /\ updates' = grads
    /\ opt_state' = opt_state + 1
    /\ pc' = "apply"
    /\ UNCHANGED <<steps, dataset_size, batch_size, save_every, step,
                   rangeNext, loader, batch, train_key, sample_key, model,
                   grads, value, sample_y, num_plots, axsUsed, visSteps,
                   keylog, epochYields, permKeys, nDrawn, nLoss, failedAt>>
    /\ UNCHANGED lossVars

\* model = eqx.apply_updates(model, updates)
ApplyUpdates ==
    /\ pc = "apply"
    /\ model' = model + 1
    /\ pc' = "vis"
    /\ UNCHANGED <<steps, dataset_size, batch_size, save_every, step,
                   rangeNext, loader, batch, train_key, sample_key, opt_state,
                   grads, updates, value, sample_y, num_plots, axsUsed,
                   visSteps, keylog, epochYields, permKeys, nDrawn, nLoss,
                   failedAt>>
    /\ UNCHANGED lossVars

\* the visualisation branch: ax = next(axs), then model.sample(sample_t,
\* key=sample_key); next on a used-up iterator and a failed solve end main
Visualize ==
    /\ pc = "vis"
    /\ VisDue(step)
    /\ IF axsUsed >= num_plots
       THEN /\ pc' = "crashed"
            /\ UNCHANGED <<sample_y, keylog, axsUsed, visSteps, failedAt>>
       ELSE \E ok \in BOOLEAN :
              /\ axsUsed' = axsUsed + 1
              /\ sample_y' = sample(model, SampleT, sample_key, ok)
              /\ keylog' = Append(keylog, sample_key)
              /\ failedAt' = IF ok THEN failedAt ELSE "sample"
              /\ IF sample_y'.status = "ok"
                 THEN /\ visSteps' = visSteps \cup {step}
                      /\ pc' = "zip"
                 ELSE /\ visSteps' = visSteps
                      /\ pc' = "failed"
    /\ UNCHANGED <<steps, dataset_size, batch_size, save_every, step,
                   rangeNext, loader, batch, train_key, sample_key, model,
                   opt_state, grads, updates, value, num_plots, epochYields,
                   permKeys, nDrawn, nLoss>>
    /\ UNCHANGED lossVars

\* the branch not taken: on to the next iteration
SkipVisualize ==
    /\ pc = "vis"
    /\ ~VisDue(step)
    /\ pc' = "zip"
    /\ UNCHANGED <<steps, dataset_size, batch_size, save_every, step,
                   rangeNext, loader, batch, train_key, sample_key, model,
                   opt_state, grads, updates, value, sample_y, num_plots,
                   axsUsed, visSteps, keylog, epochYields, permKeys, nDrawn,
                   nLoss, failedAt>>
    /\ UNCHANGED lossVars

Next ==
    \/ MakePlots
    \/ ZipNext
    \/ ZipStop
    \/ LossStep
    \/ SplitTrainKey
    \/ OptimUpdate
    \/ ApplyUpdates
    \/ Visualize
    \/ SkipVisualize

Spec == Init /\ [][Next]_vars

\* main has no concurrency: once started it runs each line in turn
FairSpec == Spec /\ WF_vars(Next)

\* ------------------------------------------------------------------ claims
Halted == pc \in {"done", "failed", "crashed"}

Flatten(ss) ==
    LET F[i \in 0..Len(ss)] == IF i = 0 THEN << >> ELSE F[i - 1] \o ss[i]
    IN  F[Len(ss)]

\* C1: no PRNG key is handed to a random operation (split, permutation,
\* normal, uniform) twice during a run of main.
C1_NoKeyConsumedTwice ==
    \A i, j \in 1..Len(keylog) : keylog[i] = keylog[j] => i = j

\* C2 as stated: every minibatch the dataloader yields has exactly batch_size
\* elements.
C2_EveryBatchFull ==
    nDrawn > 0 => Len(batch.ts_i) = batch_size

\* C2 as amended: a minibatch has batch_size elements unless it is the last
\* of its epoch, which holds the dataset_size - start elements that are left
\* (between 1 and batch_size; batch_size exactly when batch_size divides
\* dataset_size).
C2_BatchSizeClipped ==
    nDrawn > 0 =>
        /\ Len(batch.ts_i) = Len(batch.idx)
        /\ Len(batch.ys_i) = Len(batch.idx)
        /\ Len(batch.idx) = Min(batch_size, dataset_size - loader.start)
        /\ Len(batch.idx) >= 1
        /\ loader.end < dataset_size => Len(batch.idx) = batch_size
        /\ dataset_size % batch_size = 0 => Len(batch.idx) = batch_size
        /\ (loader.end > dataset_size) => Len(batch.idx) < batch_size

C2_ShortLastBatch ==
    /\ nDrawn > 1
    /\ loader.start > 0
    /\ Len(batch.idx) < batch_size

\* batches drawn, loss calls and updates at each position of the loop
C3_Counts ==
    /\ pc = "zip" =>
         /\ nDrawn = rangeNext /\ nLoss = rangeNext
         /\ model = rangeNext /\ opt_state = rangeNext
    /\ pc \in {"loss", "split", "update", "apply", "vis"} =>
         /\ step = rangeNext - 1 /\ step < steps
         /\ nDrawn = step + 1
         /\ nLoss = IF pc = "loss" THEN step ELSE step + 1
         /\ opt_state = IF pc \in {"loss", "split", "update"}
                        THEN step ELSE step + 1
         /\ model = IF pc = "vis" THEN step + 1 ELSE step
    /\ pc = "done" =>
         /\ rangeNext = steps
         /\ nDrawn = steps /\ nLoss = steps
         /\ model = steps /\ opt_state = steps

C4_SolveFailurePropagates ==
    /\ failedAt = "loss" =>
         /\ pc = "failed"
         /\ value.status = "solve_failure"
         /\ value.preds = << >> /\ value.per = << >>
         /\ model = step /\ opt_state = step /\ grads < step
    /\ failedAt = "sample" =>
         /\ pc = "failed"
         /\ sample_y.status = "solve_failure"
         /\ sample_y.ys = << >>
    /\ pc = "failed" => failedAt # "none"

C4_FailedInLoss ==
    /\ failedAt = "loss"
    /\ step >= 1

\* C8: the model parameters change only in apply_updates and the optimiser
\* state only in optim.update, each by one update per training step; drawing
\* a batch, the call of loss, the split of train_key and model.sample leave
\* both as they were.
C8_ParametersFrame ==
    [][/\ pc # "apply" => model' = model
       /\ pc # "update" => opt_state' = opt_state
       /\ pc = "apply" => model' = model + 1
       /\ pc = "update" => opt_state' = opt_state + 1]_vars

C8_TwoStepsVisualized ==
    /\ pc = "zip"
    /\ model = 2
    /\ opt_state = 2
    /\ axsUsed >= 1
    /\ sample_y.status = "ok"

\* C9: the axes allocated before the loop are exactly the iterations at which
\* the visualisation fires: a run that no solve failure cuts short uses every
\* allocated axis, never asks for one more, and samples at exactly the steps
\* with step % save_every = 0 or step = steps - 1.
C9_AxesMatchVisualizations ==
    (steps >= 1 /\ pc \in {"done", "crashed"}) =>
        /\ pc = "done"
        /\ axsUsed = num_plots
        /\ visSteps = {s \in 0..(steps - 1) : VisDue(s)}
        /\ num_plots = Cardinality(visSteps)

\* C10: the dataloader yields a batch at every request; the batches of one
\* epoch are consecutive, disjoint slices of one permutation of
\* 0..dataset_size-1 and cover it when the epoch ends; ts_i and ys_i are cut
\* with the same indices; every epoch's permutation key is the only child of
\* the previous epoch's.
C10_EpochsPartitionDataset ==
    /\ nDrawn = rangeNext
    /\ loader.started =>
         LET seen == Flatten(epochYields)
             data == GetData(dataset_size)
         IN  /\ loader.perm \in PermutationsOf(dataset_size)
             /\ seen = SubSeq(loader.perm, 1, Len(seen))
             /\ Len(seen) = Min(loader.end, dataset_size)
             /\ \A b \in 1..Len(epochYields) : Len(epochYields[b]) >= 1
             /\ loader.start < dataset_size
             /\ StartsEpoch(loader) <=> Range(seen) = 0..(dataset_size - 1)
             /\ batch.idx = epochYields[Len(epochYields)]
             /\ batch.ts_i = [j \in 1..Len(batch.idx) |-> data.ts[batch.idx[j] + 1]]
             /\ batch.ys_i = [j \in 1..Len(batch.idx) |-> data.ys[batch.idx[j] + 1]]
             /\ permKeys[1] = MainKeys[3]
             /\ \A e \in 2..Len(permKeys) :
                    permKeys[e] = SplitKey(permKeys[e - 1], 1)[1]
             /\ loader.key = SplitKey(permKeys[Len(permKeys)], 1)[1]

C10_SecondEpochComplete ==
    /\ Len(permKeys) >= 2
    /\ Len(epochYields) >= 2
    /\ dataset_size % batch_size # 0

\* ------------------------------------------- loss on free-standing batches
\* a time grid of n increasing times, and n observations
Grid(n, dt) == [j \in 1..n |-> (j - 1) * dt]

Obs(n, tag) == [j \in 1..n |-> [d \in 1..DataSize |-> 10 * tag + j]]

\* trajectories: two with grids of the same length but other times, one with
\* a longer grid
Trajectories ==
    {[ts |-> Grid(NumObs, 1), ys |-> Obs(NumObs, 1)],
     [ts |-> Grid(NumObs, 2), ys |-> Obs(NumObs, 2)],
     [ts |-> Grid(NumObs + 1, 1), ys |-> Obs(NumObs + 1, 3)]}

Batches ==
    UNION {[1..n -> Trajectories] : n \in 1..LossBatch}

TsOf(b) == [i \in 1..Len(b) |-> b[i].ts]

YsOf(b) == [i \in 1..Len(b) |-> b[i].ys]

Permuted(s, perm) == [i \in 1..Len(s) |-> s[perm[i]]]

PositionPerms(n) ==
    {p \in [1..n -> 1..n] : \A i, j \in 1..n : p[i] = p[j] => i = j}

\* the outcome of the solve of each element: a function of the element and of
\* the key that produced its latent
SolveOks(b, keys) ==
    [i \in 1..Len(b) |-> <<b[i], keys[i]>> \notin bad]

LossOf(b) ==
    loss(model, TsOf(b), YsOf(b), lkey,
         SolveOks(b, SplitKey(lkey, Len(b))))

\* the vectorised call and the mean on explicit per-element keys
LossKeyedOf(b, keys) ==
    IF ~Rectangular(TsOf(b))
    THEN [NoValue EXCEPT !.status = "shape_error"]
    ELSE loss_keyed(model, TsOf(b), YsOf(b), keys, SolveOks(b, keys))

LossInit ==
    /\ steps = 0
    /\ dataset_size = 1
    /\ batch_size = 1
    /\ save_every = 1
    /\ pc = "off"
    /\ step = -1
    /\ rangeNext = 0
    /\ loader = NewLoader(MainKeys[3])
    /\ batch = [idx |-> << >>, ts_i |-> << >>, ys_i |-> << >>]
    /\ train_key = MainKeys[4]
    /\ sample_key = MainKeys[5]
    /\ model \in 0..1
    /\ opt_state = 0
    /\ grads = -1
    /\ updates = -1
    /\ value = NoValue
    /\ sample_y = [status |-> "none", ys |-> << >>]
    /\ num_plots = 0
    /\ axsUsed = 0
    /\ visSteps = {}
    /\ keylog = SetupKeys
    /\ epochYields = << >>
    /\ permKeys = << >>
    /\ nDrawn = 0
    /\ nLoss = 0
    /\ failedAt = "none"
    /\ lpc = "ready"
    /\ mb \in Batches
    /\ \E k \in 1..Len(mb), e \in Trajectories : mb2 = [mb EXCEPT ![k] = e]
    /\ sigma \in PositionPerms(Len(mb))
    /\ lkey = MainKeys[4]
    /\ bad \in {{}} \cup {{<<e, SplitKey(lkey, Len(mb))[i]>>} :
                            e \in Trajectories, i \in 1..Len(mb)}
    /\ resA = NoValue
    /\ resB = NoValue
    /\ resK = NoValue
    /\ res2 = NoValue

\* loss(model, ts_i, ys_i, key_i=key) on the minibatch
EvalLoss ==
    /\ lpc = "ready"
    /\ resA' = LossOf(mb)
    /\ lpc' = "permuted"
    /\ UNCHANGED <<mb, mb2, sigma, lkey, bad, resB, resK, res2>>
    /\ UNCHANGED mainVars

\* the same call on the minibatch with its elements permuted: once as loss
\* makes it (keys by position), once with the keys permuted with the elements
EvalPermuted ==
    /\ lpc = "permuted"
    /\ resB' = LossOf(Permuted(mb, sigma))
    /\ resK' = LossKeyedOf(Permuted(mb, sigma),
                           Permuted(SplitKey(lkey, Len(mb)), sigma))
    /\ lpc' = "other"
    /\ UNCHANGED <<mb, mb2, sigma, lkey, bad, resA, res2>>
    /\ UNCHANGED mainVars

\* the same call on the minibatch with one element replaced
EvalOther ==
    /\ lpc = "other"
    /\ res2' = LossOf(mb2)
    /\ lpc' = "done"
    /\ UNCHANGED <<mb, mb2, sigma, lkey, bad, resA, resB, resK>>
    /\ UNCHANGED mainVars

LossNext ==
    \/ EvalLoss
    \/ EvalPermuted
    \/ EvalOther

LossSpec == LossInit /\ [][LossNext]_vars

\* C5 as stated: the scalar returned by loss is the same for every
\* permutation of the minibatch's elements (keys handed out by position).
C5_LossOrderInvariant ==
    (lpc = "done" /\ resA.status = "ok" /\ resB.status = "ok") =>
        resB.mean = resA.mean

\* C5 as amended: the scalar is the mean of the per-element values, and it is
\* the same for every permutation of the minibatch's elements that carries
\* each element's key along with it; with the keys handed out by position,
\* as loss does, a permutation that leaves every position holding an equal
\* element leaves the scalar as it was.
C5_LossOrderInvariantWithKeys ==
    lpc = "done" =>
        /\ resK.status = resA.status
        /\ resK.mean = resA.mean
        /\ Permuted(mb, sigma) = mb => resB = resA

C5_SwappedDistinctElements ==
    /\ lpc = "done"
    /\ Len(mb) >= 2
    /\ Permuted(mb, sigma) # mb
    /\ resA.status = "ok"
    /\ resK.status = "ok"
    /\ resB.status = "ok"
    /\ resB.mean # resA.mean

\* C6: within one call of loss the individual loss of an element is decided
\* by the model, the element's own time grid and observations and the key
\* handed to it: two minibatches that hold the same element at the same
\* position (hence with the same key) give it the same individual loss,
\* whatever their other elements are.
C6_ElementLossIndependent ==
    lpc = "done" =>
        /\ (resA.status = "ok" /\ res2.status = "ok") =>
              \A i \in 1..Len(mb) :
                  mb2[i] = mb[i] => res2.per[i] = resA.per[i]
        /\ (resA.status = "ok" /\ resB.status = "ok") =>
              \A i \in 1..Len(mb) :
                  mb[sigma[i]] = mb[i] => resB.per[i] = resA.per[i]

C6_OtherElementReplaced ==
    /\ lpc = "done"
    /\ Len(mb) >= 2
    /\ resA.status = "ok"
    /\ res2.status = "ok"
    /\ mb2[1] # mb[1]
    /\ mb2[1].ts # mb[1].ts
    /\ mb2[2] = mb[2]
    /\ res2.per[1] # resA.per[1]

====
